---- MODULE Spec2Model ----
(***************************************************************************)
(* CortexON frontend: the incremental multi-agent transcript aggregator of *)
(* ChatList.tsx (first version, lines 1-774) together with the turn        *)
(* life cycle of Landing (handleSubmit) and Header (New Chat).             *)
(*                                                                         *)
(* Spec is the conversation over a connection that stays up once opened,   *)
(* with every update event and every selection control; SpecConn is the    *)
(* conversation over a connection that fails, closes and is retried, with  *)
(* a few update events and no selection controls.                          *)
(*                                                                         *)
(* Strings whose content the code inspects (steps: startsWith, the goal:   *)
(* trim) are sequences of one-character strings.  Indices into             *)
(* outputsList are 0-based as in the source; findIndex yields -1 when      *)
(* nothing matches.  number | null is <<>> (null) or <<i>>.                *)
(***************************************************************************)
EXTENDS Integers, Sequences, FiniteSets, TLC

VARIABLES
    messages,            \* Home: useState<Message[]>([])
    isLoading,           \* Chat: useState<boolean>(false)
    liveUrl,             \* ChatList: useState<string>("")
    outputsList,         \* ChatList: useState<AgentOutput[]>([])
    currentOutput,       \* ChatList: useState<number | null>(null)
    animateOutputEntry,  \* ChatList: useState<boolean>(false)
    timers,              \* pending setTimeout callbacks of ChatList, in scheduling order
    ws,                  \* the Event Source of the mounted ChatList (useWebSocket)
    crashed,             \* an exception left a state updater: the tree is torn down
    nConn,               \* number of connection events so far
    nEvents,             \* number of update events and preview messages delivered so far
    nUserOps,            \* number of user operations so far
    firstSeen,           \* history: agent names of the open turn in first-applied order
    last                 \* history: the operation that produced this state

vars == <<messages, isLoading, liveUrl, outputsList, currentOutput,
          animateOutputEntry, timers, ws, crashed, nConn, nEvents, nUserOps,
          firstSeen, last>>

(***************************************************************************)
(* Bounds of the model.                                                    *)
(***************************************************************************)
MaxEvents == 3
MaxUserOps == 3
MaxConn == 4

(***************************************************************************)
(* Strings as character sequences.                                         *)
(***************************************************************************)
StartsWith(s, p) == Len(s) >= Len(p) /\ SubSeq(s, 1, Len(p)) = p

PlanPrefix == <<"P", "l", "a", "n">>
CurrentPrefix == <<"C", "u", "r", "r", "e", "n", "t">>

PlanX == PlanPrefix \o <<":", "X">>
PlanY == PlanPrefix \o <<":", "Y">>
CurA == CurrentPrefix \o <<":", "A">>
CurC == CurrentPrefix \o <<":", "C">>
NoteB == <<"N", "o", "t", "e", ":", "B">>

IsSpace(c) == c \in {" ", "\n", "\t"}

RECURSIVE TrimStart(_)
TrimStart(s) == IF s # <<>> /\ IsSpace(Head(s)) THEN TrimStart(Tail(s)) ELSE s

RECURSIVE TrimEnd(_)
TrimEnd(s) ==
    IF s # <<>> /\ IsSpace(s[Len(s)]) THEN TrimEnd(SubSeq(s, 1, Len(s) - 1)) ELSE s

Trim(s) == TrimEnd(TrimStart(s))

(***************************************************************************)
(* Array helpers with the semantics of Array.prototype.findIndex / find;    *)
(* Array.prototype.filter is SelectSeq.                                    *)
(***************************************************************************)
Min(S) == CHOOSE x \in S : \A y \in S : x <= y

\* findIndex: hits is the set of (1-based) positions whose element passes the test
FindIndex(hits) == IF hits = {} THEN -1 ELSE Min(hits) - 1

Undefined == <<"undefined">>

\* find: the element at the first passing position, or undefined
Find(arr, hits) ==
    LET i == FindIndex(hits) IN IF i = -1 THEN Undefined ELSE arr[i + 1]

RemoveAt(seq, i) == SubSeq(seq, 1, i - 1) \o SubSeq(seq, i + 1, Len(seq))

Null == <<>>
Some(i) == <<i>>

(***************************************************************************)
(* Inbound update events (SystemMessage).                                  *)
(***************************************************************************)
Orchestrator == "Orchestrator"
WebSurfer == "Web Surfer Agent"
Coder == "Coder Agent"

Agents == {Orchestrator, WebSurfer, Coder}

SpecSteps == <<PlanX, CurA, NoteB, CurC>>

StepLists ==
    { <<>>,
      SpecSteps,
      <<CurA, NoteB, CurC>>,
      <<NoteB, CurC, PlanX, PlanY, CurA>> }

Event(agent, steps, output, code, url) ==
    [agent_name |-> agent, instructions |-> "do it", steps |-> steps,
     output |-> output, status_code |-> code, live_url |-> url]

\* The browsing agent: every step list; a live URL and an output on one of them.
WebSurferEvents ==
    {Event(WebSurfer, st, "", 200, "") : st \in StepLists}
      \cup {Event(WebSurfer, SpecSteps, "", 200, "https://x"),
            Event(WebSurfer, SpecSteps, "page", 200, "")}

\* A default-path agent: no, one or another output; a live URL on one event.
CoderEvents ==
    {Event(Coder, SpecSteps, out, 200, "") : out \in {"", "print(1)", "print(2)"}}
      \cup {Event(Coder, SpecSteps, "", 200, "https://y")}

\* The orchestrator: with and without output, succeeding and failing.
OrchestratorEvents ==
    {Event(Orchestrator, <<>>, out, code, "") :
        out \in {"", "done"}, code \in {200, 500}}

\* An event whose steps field is missing (line 111 destructures undefined).
MissingStepsEvents == {Event(WebSurfer, Undefined, "", 200, "")}

Events == WebSurferEvents \cup CoderEvents \cup OrchestratorEvents \cup MissingStepsEvents

NoEvent ==
    [agent_name |-> "none", instructions |-> "", steps |-> <<>>, output |-> "",
     status_code |-> 0, live_url |-> ""]

(***************************************************************************)
(* Agent record merger: the body of the setMessages updater, lines 124-157.*)
(***************************************************************************)
IsPlan(step) == StartsWith(step, PlanPrefix)
IsCurrent(step) == StartsWith(step, CurrentPrefix)

\* Mutant: every "Plan" step is kept, in place, beside the "Current" steps.
FilteredStepsAllPlans(agent_name, steps) ==
    LET Kept(step) == IsPlan(step) \/ IsCurrent(step)
    IN  IF agent_name = WebSurfer THEN SelectSeq(steps, Kept) ELSE steps

\* lines 130-139: let filteredSteps = steps; if Web Surfer Agent: plan + currents
FilteredSteps(agent_name, steps) ==
    IF agent_name = WebSurfer
    THEN LET plannerStep == Find(steps, {i \in 1..Len(steps) : IsPlan(steps[i])})
         IN  IF plannerStep # Undefined
             THEN <<plannerStep>> \o SelectSeq(steps, IsCurrent)
             ELSE SelectSeq(steps, IsCurrent)
    ELSE steps

\* lines 131-132: steps.find on a missing steps field raises a TypeError
Throws(lastMessageData, e) ==
    /\ FindIndex({i \in 1..Len(lastMessageData) :
                     lastMessageData[i].agent_name = e.agent_name}) # -1
    /\ e.agent_name = WebSurfer
    /\ e.steps = Undefined

\* lines 140-147: the record written over an existing one
ReplacedRecord(e) ==
    [agent_name |-> e.agent_name, instructions |-> e.instructions,
     steps |-> FilteredSteps(e.agent_name, e.steps), output |-> e.output,
     status_code |-> e.status_code, live_url |-> e.live_url]

\* lines 149-156: the record pushed for an agent not seen yet (raw steps)
PushedRecord(e) ==
    [agent_name |-> e.agent_name, instructions |-> e.instructions,
     steps |-> e.steps, output |-> e.output,
     status_code |-> e.status_code, live_url |-> e.live_url]

\* lines 125-127
AgentIndex(lastMessageData, e) ==
    FindIndex({i \in 1..Len(lastMessageData) :
                  lastMessageData[i].agent_name = e.agent_name})

\* Mutant: every event is pushed as a new record.
MergeRecordAlwaysPush(lastMessageData, e) == Append(lastMessageData, PushedRecord(e))

\* Mutant: an updated record is removed and re-appended at the end.
MergeRecordMoveToEnd(lastMessageData, e) ==
    LET agentIndex == AgentIndex(lastMessageData, e)
    IN  IF agentIndex # -1
        THEN Append(RemoveAt(lastMessageData, agentIndex + 1), ReplacedRecord(e))
        ELSE Append(lastMessageData, PushedRecord(e))

\* Mutant: merge by field, an empty output keeps the record's previous output.
MergeRecordKeepOutput(lastMessageData, e) ==
    LET agentIndex == AgentIndex(lastMessageData, e)
    IN  IF agentIndex # -1
        THEN [lastMessageData EXCEPT ![agentIndex + 1] =
                [ReplacedRecord(e) EXCEPT !.output =
                    IF e.output = "" THEN lastMessageData[agentIndex + 1].output
                    ELSE e.output]]
        ELSE Append(lastMessageData, PushedRecord(e))

\* lines 129-157
MergeRecord(lastMessageData, e) ==
    LET agentIndex == AgentIndex(lastMessageData, e)
    IN  IF agentIndex # -1
        THEN [lastMessageData EXCEPT ![agentIndex + 1] = ReplacedRecord(e)]
        ELSE Append(lastMessageData, PushedRecord(e))

(***************************************************************************)
(* Loading flag and live URL, lines 109, 115-122, 160-164.                 *)
(***************************************************************************)
\* Mutant: the flag is cleared only by a successful Orchestrator result.
NextIsLoadingOnly200(e) ==
    IF e.output # "" /\ e.agent_name = Orchestrator /\ e.status_code = 200
    THEN FALSE ELSE TRUE

\* Mutant: any agent's output clears the flag.
NextIsLoadingAnyOutput(e) == IF e.output # "" THEN FALSE ELSE TRUE

\* setIsLoading(true) at line 109, then setIsLoading(false) at line 163 when the
\* Orchestrator delivers output; the later call of the batch wins.
NextIsLoading(e) ==
    IF e.output # "" /\ e.agent_name = Orchestrator THEN FALSE ELSE TRUE

\* Mutant: an event without live_url clears the URL whatever the agent.
NextLiveUrlAlwaysClear(url, e) == IF e.live_url # "" THEN e.live_url ELSE ""

\* Mutant: an event without live_url never clears the URL.
NextLiveUrlKeep(url, e) == IF e.live_url # "" THEN e.live_url ELSE url

\* lines 115-122
NextLiveUrl(url, e) ==
    IF e.live_url # "" THEN e.live_url
    ELSE IF e.agent_name # WebSurfer THEN ""
    ELSE url

(***************************************************************************)
(* Output gallery, lines 166-200.                                          *)
(***************************************************************************)
OutputIndex(list, agent_name) ==
    FindIndex({i \in 1..Len(list) : list[i].agent = agent_name})

\* Mutant: the entry is appended without looking for an existing one.
UpsertOutputAlwaysAppend(prevList, e) ==
    Append(prevList, [agent |-> e.agent_name, output |-> e.output])

\* Mutant: an updated entry is removed and re-appended at the end.
UpsertOutputMoveToEnd(prevList, e) ==
    LET Others(item) == item.agent # e.agent_name
    IN  Append(SelectSeq(prevList, Others), [agent |-> e.agent_name, output |-> e.output])

\* Mutant: the first output of an agent is kept, later ones are ignored.
UpsertOutputKeepFirst(prevList, e) ==
    IF OutputIndex(prevList, e.agent_name) >= 0
    THEN prevList
    ELSE Append(prevList, [agent |-> e.agent_name, output |-> e.output])

\* lines 168-180
UpsertOutput(prevList, e) ==
    LET existingIndex == OutputIndex(prevList, e.agent_name)
        entry == [agent |-> e.agent_name, output |-> e.output]
    IN  IF existingIndex >= 0
        THEN [prevList EXCEPT ![existingIndex + 1] = entry]
        ELSE Append(prevList, entry)

\* Mutant: every update with output schedules an auto-select.
AutoSelectsAlways(prevList, e) == TRUE

\* line 183
AutoSelects(prevList, e) == Len(prevList) = 0 \/ e.agent_name = Orchestrator

\* Mutant: the auto-select points one past the last entry.
AutoSelectIndexPastEnd(newList) == Len(newList)

\* Mutant: the first entry is selected.
AutoSelectIndexFirst(newList) == 0

\* lines 184-196: the index the deferred callback will select
AutoSelectIndex(newList) ==
    LET orchestratorIndex == OutputIndex(newList, Orchestrator)
    IN  IF orchestratorIndex # -1 THEN orchestratorIndex ELSE Len(newList) - 1

\* A pending setTimeout callback: what it will do and what its closure holds.
\* The closure of the auto-select callback also holds agent_name, prevList and
\* existingIndex of the enclosing updater.
AutoTimer(prevList, e) ==
    [kind |-> "auto", delay |-> 0, index |-> Some(AutoSelectIndex(UpsertOutput(prevList, e))),
     agent |-> e.agent_name, prevLen |-> Len(prevList),
     existingIndex |-> OutputIndex(prevList, e.agent_name)]

\* Mutant: a new auto-select cancels the callbacks that are still pending.
NextTimersSupersede(pending, prevList, e) ==
    IF AutoSelects(prevList, e) THEN <<AutoTimer(prevList, e)>> ELSE pending

\* lines 183-197: setTimeout(..., 0) under the auto-select condition; nothing
\* pending is cancelled
NextTimers(pending, prevList, e) ==
    IF AutoSelects(prevList, e) THEN Append(pending, AutoTimer(prevList, e)) ELSE pending

SelectTimer(index) ==
    [kind |-> "select", delay |-> 300, index |-> Some(index), agent |-> "", prevLen |-> 0,
     existingIndex |-> -1]

\* Mutant: the dismiss callback re-selects the first output.
DismissTimerReselects ==
    [kind |-> "dismiss", delay |-> 300, index |-> Some(0), agent |-> "", prevLen |-> 0,
     existingIndex |-> -1]

\* line 717: setTimeout(() => setCurrentOutput(null), 300)
DismissTimer ==
    [kind |-> "dismiss", delay |-> 300, index |-> Null, agent |-> "", prevLen |-> 0,
     existingIndex |-> -1]

NoTimer ==
    [kind |-> "none", delay |-> 0, index |-> Null, agent |-> "", prevLen |-> 0,
     existingIndex |-> -1]

(***************************************************************************)
(* Transcript store.                                                       *)
(***************************************************************************)
\* line 107-108: lastMessage?.role === "system"
HasOpenTurn(prev) == prev # <<>> /\ prev[Len(prev)].role = "system"

\* Mutant: an event arriving without an open turn creates the system turn.
NextMessagesImplicitTurn(prev, e) ==
    IF HasOpenTurn(prev)
    THEN LET lastMessage == prev[Len(prev)]
         IN  SubSeq(prev, 1, Len(prev) - 1)
               \o <<[lastMessage EXCEPT !.data = MergeRecord(lastMessage.data, e)]>>
    ELSE Append(prev, [role |-> "system", data |-> <<PushedRecord(e)>>])

\* Mutant: the updater also re-stamps the user turn.
NextMessagesRestamp(prev, e) ==
    IF HasOpenTurn(prev)
    THEN LET lastMessage == prev[Len(prev)]
         IN  <<[prev[1] EXCEPT !.sent_at = "now"]>>
               \o SubSeq(prev, 2, Len(prev) - 1)
               \o <<[lastMessage EXCEPT !.data = MergeRecord(lastMessage.data, e)]>>
    ELSE prev

\* lines 106-213: the value the setMessages updater returns
NextMessages(prev, e) ==
    IF HasOpenTurn(prev)
    THEN LET lastMessage == prev[Len(prev)]
         IN  SubSeq(prev, 1, Len(prev) - 1)
               \o <<[lastMessage EXCEPT !.data = MergeRecord(lastMessage.data, e)]>>
    ELSE prev

OpenData == IF HasOpenTurn(messages) THEN messages[Len(messages)].data ELSE <<>>

Names(seq) == {seq[i] : i \in 1..Len(seq)}

\* ahead: for a callback that ran, how many still-pending callbacks were scheduled before it;
\* goal: for a submit, the text that was submitted
Op(name) ==
    [op |-> name, e |-> NoEvent, found |-> FALSE, repeat |-> FALSE, t |-> NoTimer,
     ahead |-> 0, goal |-> <<>>]

(***************************************************************************)
(* The Event Source: useWebSocket(url, {onOpen, onError, reconnectAttempts: *)
(* 3, retryOnError: true}), lines 54-72.  readyState is the hook's         *)
(* connection-state signal; reconnectCount and reconnectPending are the    *)
(* hook's bounded automatic reconnection; sent counts the prompts handed   *)
(* to sendMessage in this conversation.                                    *)
(***************************************************************************)
ReconnectAttempts == 3

\* No ChatList is mounted: there is no socket.
NoSocket ==
    [readyState |-> "uninstantiated", reconnectCount |-> 0, reconnectPending |-> FALSE,
     sent |-> 0]

\* ChatList mounts: the hook starts connecting.
NewSocket ==
    [readyState |-> "connecting", reconnectCount |-> 0, reconnectPending |-> FALSE,
     sent |-> 0]

(***************************************************************************)
(* The completion block of a system turn as rendered, lines 601-647.       *)
(***************************************************************************)
\* lines 602-607: data.find(agent_name === "Orchestrator" && output) is truthy
CompletionShown(data) ==
    \E i \in 1..Len(data) : data[i].agent_name = Orchestrator /\ data[i].output # ""

\* lines 609-612 and 637-642: data.find(agent_name === "Orchestrator")
OrchestratorRecord(data) ==
    data[FindIndex({i \in 1..Len(data) : data[i].agent_name = Orchestrator}) + 1]

\* Mutant: the status is read from status_code alone.
CompletionStatusByCode(data) ==
    IF \A i \in 1..Len(data) : data[i].agent_name # Orchestrator THEN "Working"
    ELSE IF OrchestratorRecord(data).status_code = 200 THEN "Succeeded"
    ELSE "Failed"

\* lines 602-645: nothing, the completion card, or the error alert
CompletionStatus(data) ==
    IF ~CompletionShown(data) THEN "Working"
    ELSE IF OrchestratorRecord(data).status_code = 200 THEN "Succeeded"
    ELSE "Failed"

\* utils.ts lines 60-72
ErrorAlert(errorMessage) ==
    IF errorMessage # "" THEN errorMessage ELSE "Something went wrong."

\* lines 636-644: the text of the error alert
FailureMessage(data) == ErrorAlert(OrchestratorRecord(data).output)

(***************************************************************************)
(* Initial state: Home, Chat and Landing mounted, no conversation.         *)
(***************************************************************************)
Init ==
    /\ messages = <<>>
    /\ isLoading = FALSE
    /\ liveUrl = ""
    /\ outputsList = <<>>
    /\ currentOutput = Null
    /\ animateOutputEntry = FALSE
    /\ timers = <<>>
    /\ ws = NoSocket
    /\ crashed = FALSE
    /\ nConn = 0
    /\ nEvents = 0
    /\ nUserOps = 0
    /\ firstSeen = <<>>
    /\ last = Op("init")

(***************************************************************************)
(* Landing.handleSubmit (part_000 lines 45-66).  Landing is rendered only  *)
(* while messages is empty (part_001 line 12).                             *)
(***************************************************************************)
Goals == { <<>>, <<" ">>, <<" ", "a">> }
Times == { "2026-01-01T00:00:00.000Z" }

SubmittedMessages(goal, now) ==
    << [role |-> "user", prompt |-> goal, sent_at |-> now],
       [role |-> "system", data |-> <<>>] >>

\* Chat renders ChatList instead of Landing (part_001 line 12)
Mounted == messages # <<>>

\* Mutant: only the empty goal is rejected, a whitespace-only goal is submitted.
handleSubmitNoTrim(goal, now) ==
    /\ ~crashed
    /\ messages = <<>>
    /\ IF goal = <<>>
       THEN UNCHANGED <<messages, isLoading, ws>>
       ELSE /\ messages' = SubmittedMessages(goal, now)
            /\ isLoading' = TRUE
            /\ ws' = NewSocket
    /\ last' = [Op("handleSubmit") EXCEPT !.goal = goal]
    /\ nUserOps < MaxUserOps
    /\ nUserOps' = nUserOps + 1
    /\ UNCHANGED <<liveUrl, outputsList, currentOutput, animateOutputEntry, timers,
                   crashed, nConn, nEvents, firstSeen>>

handleSubmit(goal, now) ==
    /\ ~crashed
    /\ messages = <<>>
    /\ IF Trim(goal) = <<>>
       THEN UNCHANGED <<messages, isLoading, ws>>
       ELSE /\ messages' = SubmittedMessages(goal, now)
            /\ isLoading' = TRUE
            /\ ws' = NewSocket
    /\ last' = [Op("handleSubmit") EXCEPT !.goal = goal]
    /\ nUserOps < MaxUserOps
    /\ nUserOps' = nUserOps + 1
    /\ UNCHANGED <<liveUrl, outputsList, currentOutput, animateOutputEntry, timers,
                   crashed, nConn, nEvents, firstSeen>>

(***************************************************************************)
(* Header "New Chat" (Header.tsx lines 8, 11): setMessages([]).  ChatList  *)
(* unmounts (part_001 line 12), so its state and the effect of its pending *)
(* timers are gone; the next mount starts from the useState initials.      *)
(***************************************************************************)
NewChat ==
    /\ ~crashed
    /\ ws' = NoSocket
    /\ messages' = <<>>
    /\ liveUrl' = ""
    /\ outputsList' = <<>>
    /\ currentOutput' = Null
    /\ animateOutputEntry' = FALSE
    /\ timers' = <<>>
    /\ firstSeen' = <<>>
    /\ last' = Op("newChat")
    /\ nUserOps < MaxUserOps
    /\ nUserOps' = nUserOps + 1
    /\ UNCHANGED <<isLoading, crashed, nConn, nEvents>>

(***************************************************************************)
(* The lastJsonMessage effect, lines 103-218: one update event applied.    *)
(***************************************************************************)
ApplyUpdate(e) ==
    /\ ~crashed
    /\ Mounted => ws.readyState = "open"
    /\ nEvents < MaxEvents
    /\ nEvents' = nEvents + 1
    /\ IF HasOpenTurn(messages) /\ Throws(OpenData, e)
       THEN /\ crashed' = TRUE
            /\ UNCHANGED <<messages, isLoading, liveUrl, outputsList, timers, firstSeen>>
       ELSE /\ UNCHANGED crashed
            /\ messages' = NextMessages(messages, e)
            /\ IF HasOpenTurn(messages)
               THEN /\ isLoading' = NextIsLoading(e)
                    /\ liveUrl' = NextLiveUrl(liveUrl, e)
                    /\ IF e.output # ""
                       THEN /\ outputsList' = UpsertOutput(outputsList, e)
                            /\ timers' = NextTimers(timers, outputsList, e)
                       ELSE UNCHANGED <<outputsList, timers>>
                    /\ firstSeen' = IF e.agent_name \in Names(firstSeen)
                                    THEN firstSeen
                                    ELSE Append(firstSeen, e.agent_name)
               ELSE UNCHANGED <<isLoading, liveUrl, outputsList, timers, firstSeen>>
    /\ last' = [op |-> "applyUpdate", e |-> e,
                found |-> AgentIndex(OpenData, e) # -1,
                repeat |-> HasOpenTurn(messages) /\ last.op = "applyUpdate" /\ last.e = e,
                t |-> NoTimer, ahead |-> 0, goal |-> <<>>]
    /\ UNCHANGED <<currentOutput, animateOutputEntry, ws, nConn, nUserOps>>

(***************************************************************************)
(* Output selection, lines 336-356, and the controls that call it.         *)
(* ChatList is rendered only while messages is non-empty.                  *)
(***************************************************************************)
\* line 704: the output panel (with X, Previous, Next) is rendered
PanelShown == Mounted /\ Len(outputsList) > 0 /\ currentOutput # Null

\* lines 337-356
handleOutputSelection(index) ==
    IF currentOutput = Some(index)
    THEN UNCHANGED <<currentOutput, animateOutputEntry, timers>>
    ELSE IF currentOutput # Null
    THEN /\ animateOutputEntry' = FALSE
         /\ timers' = Append(timers, SelectTimer(index))
         /\ UNCHANGED currentOutput
    ELSE /\ currentOutput' = Some(index)
         /\ animateOutputEntry' = TRUE
         /\ UNCHANGED timers

UserFrame ==
    /\ ~crashed
    /\ nUserOps < MaxUserOps
    /\ nUserOps' = nUserOps + 1
    /\ UNCHANGED <<messages, isLoading, liveUrl, outputsList, ws, crashed, nConn,
                   nEvents, firstSeen>>

\* lines 577-596 (an agent's output card) and 601-634 (the completion card)
CardShown(agent_name) ==
    /\ ws.readyState # "connecting"
    /\ \E i \in 1..Len(OpenData) :
        /\ OpenData[i].agent_name = agent_name
        /\ OpenData[i].output # ""
        /\ agent_name = Orchestrator => OpenData[i].status_code = 200

ClickCard(agent_name) ==
    /\ Mounted
    /\ CardShown(agent_name)
    /\ handleOutputSelection(OutputIndex(outputsList, agent_name))
    /\ last' = [Op("clickCard") EXCEPT !.t = SelectTimer(OutputIndex(outputsList, agent_name))]
    /\ UserFrame

\* lines 740-752; at index 0 the button is disabled and a click does nothing
Previous ==
    /\ PanelShown
    /\ IF currentOutput[1] > 0
       THEN handleOutputSelection(currentOutput[1] - 1)
       ELSE UNCHANGED <<currentOutput, animateOutputEntry, timers>>
    /\ last' = Op("previous")
    /\ UserFrame

\* Mutant: Next at the last output wraps around to the first.
NextOutputWraps ==
    /\ PanelShown
    /\ IF currentOutput[1] < Len(outputsList) - 1
       THEN handleOutputSelection(currentOutput[1] + 1)
       ELSE handleOutputSelection(0)
    /\ last' = Op("next")
    /\ UserFrame

\* lines 753-765; at the last index the button is disabled and a click does nothing
NextOutput ==
    /\ PanelShown
    /\ IF currentOutput[1] < Len(outputsList) - 1
       THEN handleOutputSelection(currentOutput[1] + 1)
       ELSE UNCHANGED <<currentOutput, animateOutputEntry, timers>>
    /\ last' = Op("next")
    /\ UserFrame

\* lines 713-719
Dismiss ==
    /\ PanelShown
    /\ animateOutputEntry' = FALSE
    /\ timers' = Append(timers, DismissTimer)
    /\ UNCHANGED currentOutput
    /\ last' = Op("dismiss")
    /\ UserFrame

(***************************************************************************)
(* Deferred callbacks.  A callback scheduled earlier with a delay not      *)
(* longer than another's runs before it; a 0 ms callback scheduled while a *)
(* 300 ms one is pending may run before or after it.                       *)
(***************************************************************************)
CanFire(i) == \A j \in 1..(i - 1) : timers[j].delay > timers[i].delay

\* lines 187-196, 347-350, 717; lines 415-419 reset the flag when the selection is null
FireTimer(i) ==
    /\ ~crashed
    /\ CanFire(i)
    /\ currentOutput' = timers[i].index
    /\ animateOutputEntry' = (timers[i].index # Null)
    /\ timers' = RemoveAt(timers, i)
    /\ last' = [Op("fireTimer") EXCEPT !.t = timers[i], !.ahead = i - 1]
    /\ UNCHANGED <<messages, isLoading, liveUrl, outputsList, ws, crashed, nConn,
                   nEvents, nUserOps, firstSeen>>

(***************************************************************************)
(* The Event Source's connection events (lines 54-72) and the embedded     *)
(* preview's disconnect message (lines 421-427).  A socket error is        *)
(* followed by the socket's close; with retryOnError the hook then         *)
(* reconnects while reconnectCount is below reconnectAttempts, and an open *)
(* resets reconnectCount.  No onClose and no shouldReconnect is passed, so *)
(* a close without an error runs no handler and starts no reconnection.    *)
(***************************************************************************)
ConnFrame ==
    /\ ~crashed
    /\ Mounted
    /\ nConn < MaxConn
    /\ nConn' = nConn + 1
    /\ UNCHANGED <<messages, liveUrl, outputsList, currentOutput, animateOutputEntry,
                   timers, crashed, nEvents, nUserOps, firstSeen>>

\* lines 57-65: the socket opens; onOpen sends the first turn's prompt
onOpen ==
    /\ ws.readyState = "connecting"
    /\ ws' = [ws EXCEPT !.readyState = "open",
                        !.reconnectCount = 0,
                        !.sent = IF Len(messages) > 0 /\ Len(messages[1].prompt) > 0
                                 THEN @ + 1 ELSE @]
    /\ last' = Op("onOpen")
    /\ UNCHANGED isLoading
    /\ ConnFrame

\* lines 66-70: the socket fails; onError, then the retry decision
onError ==
    /\ ws.readyState \in {"connecting", "open"}
    /\ isLoading' = FALSE
    /\ ws' = [ws EXCEPT !.readyState = "closed",
                        !.reconnectPending = ws.reconnectCount < ReconnectAttempts]
    /\ last' = Op("onError")
    /\ ConnFrame

\* lines 54-72: the socket closes without an error; no handler is registered
Closed ==
    /\ ws.readyState = "open"
    /\ ws' = [ws EXCEPT !.readyState = "closed"]
    /\ last' = Op("closed")
    /\ UNCHANGED isLoading
    /\ ConnFrame

\* lines 69-70: the hook's retry after an error
Reconnect ==
    /\ ws.reconnectPending
    /\ ws' = [ws EXCEPT !.readyState = "connecting",
                        !.reconnectCount = @ + 1,
                        !.reconnectPending = FALSE]
    /\ last' = Op("reconnect")
    /\ UNCHANGED isLoading
    /\ ConnFrame

BrowserbaseDisconnected ==
    /\ ~crashed
    /\ Mounted
    /\ liveUrl' = ""
    /\ last' = Op("browserbaseDisconnected")
    /\ nEvents < MaxEvents
    /\ nEvents' = nEvents + 1
    /\ UNCHANGED <<messages, isLoading, outputsList, currentOutput, animateOutputEntry,
                   timers, ws, crashed, nConn, nUserOps, firstSeen>>

Next ==
    \/ \E goal \in Goals, now \in Times : handleSubmit(goal, now)
    \/ NewChat
    \/ \E e \in Events : ApplyUpdate(e)
    \/ \E a \in Agents : ClickCard(a)
    \/ Previous
    \/ NextOutput
    \/ Dismiss
    \/ \E i \in 1..Len(timers) : FireTimer(i)
    \/ onOpen
    \/ BrowserbaseDisconnected

\* The conversation over a connection that stays up once it has opened.
Spec == Init /\ [][Next]_vars

\* The update events of the runs in which the connection fails.
ConnEvents ==
    {Event(Coder, SpecSteps, "", 200, "https://y"),
     Event(WebSurfer, SpecSteps, "page", 200, ""),
     Event(Orchestrator, <<>>, "done", 200, "")}

NextConn ==
    \/ \E goal \in Goals, now \in Times : handleSubmit(goal, now)
    \/ NewChat
    \/ \E e \in ConnEvents : ApplyUpdate(e)
    \/ \E i \in 1..Len(timers) : FireTimer(i)
    \/ onOpen
    \/ onError
    \/ Closed
    \/ Reconnect
    \/ BrowserbaseDisconnected

\* The conversation over a connection that fails, closes and is retried.
SpecConn == Init /\ [][NextConn]_vars

\* The update events of the runs that follow the selection to its end.
SelectEvents ==
    {Event(Coder, SpecSteps, "print(1)", 200, ""),
     Event(WebSurfer, SpecSteps, "page", 200, ""),
     Event(Orchestrator, <<>>, "done", 200, "")}

NextSelect ==
    \/ \E goal \in Goals, now \in Times : handleSubmit(goal, now)
    \/ NewChat
    \/ \E e \in SelectEvents : ApplyUpdate(e)
    \/ \E a \in Agents : ClickCard(a)
    \/ Previous
    \/ NextOutput
    \/ Dismiss
    \/ \E i \in 1..Len(timers) : FireTimer(i)
    \/ onOpen

\* The selection controls with the browser's guarantee that a scheduled
\* setTimeout callback eventually runs.
SpecSelect ==
    /\ Init
    /\ [][NextSelect]_vars
    /\ WF_vars(\E i \in 1..Len(timers) : FireTimer(i))

(***************************************************************************)
(* Vocabulary of the properties.                                           *)
(***************************************************************************)
\* The state was produced by applying update event last.e to an open system turn.
Applied == last.op = "applyUpdate" /\ HasOpenTurn(messages) /\ ~crashed

\* This step applies an update event (to whatever the turn sequence is).
ApplyStep == last'.op = "applyUpdate" /\ nEvents' = nEvents + 1

RecordsOf(data, agent_name) == {i \in 1..Len(data) : data[i].agent_name = agent_name}

\* The step filtering rule of the specification, by positions.
RECURSIVE CurrentsFrom(_, _)
CurrentsFrom(steps, i) ==
    IF i > Len(steps) THEN <<>>
    ELSE IF StartsWith(steps[i], CurrentPrefix)
         THEN <<steps[i]>> \o CurrentsFrom(steps, i + 1)
         ELSE CurrentsFrom(steps, i + 1)

EffectiveSteps(agent_name, steps) ==
    IF agent_name # WebSurfer \/ steps = Undefined THEN steps
    ELSE LET plans == {i \in 1..Len(steps) : StartsWith(steps[i], PlanPrefix)}
         IN  IF plans = {} THEN CurrentsFrom(steps, 1)
             ELSE <<steps[Min(plans)]>> \o CurrentsFrom(steps, 1)

\* The record a merge of event e leaves, according to the specification.
MergedRecord(e) ==
    [agent_name |-> e.agent_name, instructions |-> e.instructions,
     steps |-> EffectiveSteps(e.agent_name, e.steps), output |-> e.output,
     status_code |-> e.status_code, live_url |-> e.live_url]

(***************************************************************************)
(* C1.  For every sequence of update events applied to a system turn, the  *)
(* turn's agentRecords holds at most one record per agentName; applying    *)
(* the same update event twice in a row leaves exactly one record for that *)
(* agent, carrying the values the second application writes.               *)
(***************************************************************************)
C1_OneRecordPerAgent ==
    /\ \A m \in 1..Len(messages) :
          messages[m].role = "system" =>
            \A i, j \in 1..Len(messages[m].data) :
                messages[m].data[i].agent_name = messages[m].data[j].agent_name => i = j
    /\ (Applied /\ last.repeat) =>
          /\ Cardinality(RecordsOf(OpenData, last.e.agent_name)) = 1
          /\ \A i \in RecordsOf(OpenData, last.e.agent_name) :
                OpenData[i] = MergedRecord(last.e)

\* The same event was applied twice in a row to a turn that holds another agent too.
C1_Witness == Applied /\ last.repeat /\ Len(OpenData) >= 2

(***************************************************************************)
(* C2.  The order of records in agentRecords equals the order in which     *)
(* each distinct agentName was first seen in that turn; a later update for *)
(* an already-present agent never moves its record.                        *)
(***************************************************************************)
C2_FirstSeenOrder ==
    HasOpenTurn(messages) =>
        /\ Len(OpenData) = Len(firstSeen)
        /\ \A i \in 1..Len(OpenData) : OpenData[i].agent_name = firstSeen[i]

\* An update for the agent of the first of several records was applied.
C2_Witness ==
    /\ Applied /\ last.found
    /\ Len(OpenData) >= 2
    /\ OpenData[1].agent_name = last.e.agent_name

(***************************************************************************)
(* C3.  For all sequences of update events, the output gallery never       *)
(* contains two entries with the same agent name.                          *)
(***************************************************************************)
C3_GalleryUnique ==
    \A i, j \in 1..Len(outputsList) :
        outputsList[i].agent = outputsList[j].agent => i = j

\* An event with output was applied twice in a row: the second upsert met an entry.
C3_Witness ==
    /\ Applied /\ last.repeat /\ last.e.output # ""
    /\ Len(outputsList) >= 2

(***************************************************************************)
(* C4.  Completion latch: once the open turn has reached Succeeded or      *)
(* Failed (the Orchestrator record has non-empty output and loading is     *)
(* false), applying a subsequent update event from a non-Orchestrator      *)
(* agent, with or without new output, does not change the loading flag.    *)
(***************************************************************************)
OrchestratorDone(data) ==
    \E i \in 1..Len(data) : data[i].agent_name = Orchestrator /\ data[i].output # ""

C4_CompletionLatch ==
    [][ ( /\ ApplyStep
          /\ HasOpenTurn(messages)
          /\ OrchestratorDone(OpenData)
          /\ isLoading = FALSE
          /\ last'.e.agent_name # Orchestrator )
        => isLoading' = isLoading ]_vars

(***************************************************************************)
(* C5.  Auto-select precedence: when an update with non-empty output       *)
(* arrives from the Orchestrator while the gallery holds entries none of   *)
(* which is the Orchestrator's, then once the deferred select has run the  *)
(* selection is the index of the Orchestrator's newly appended entry, not  *)
(* index 0; and when the gallery was empty before an upsert from a         *)
(* non-Orchestrator agent, the entry just upserted is selected.            *)
(***************************************************************************)
AutoSelectRan == last.op = "fireTimer" /\ last.t.kind = "auto"

C5_AutoSelectPrecedence ==
    AutoSelectRan =>
        /\ ( /\ last.t.agent = Orchestrator
             /\ last.t.prevLen > 0
             /\ last.t.existingIndex = -1 )
           => /\ currentOutput = Some(last.t.prevLen)
              /\ currentOutput # Some(0)
              /\ Len(outputsList) > last.t.prevLen
              /\ outputsList[last.t.prevLen + 1].agent = Orchestrator
        /\ ( /\ last.t.agent # Orchestrator
             /\ last.t.prevLen = 0 )
           => /\ currentOutput = Some(0)
              /\ Len(outputsList) > 0
              /\ outputsList[1].agent = last.t.agent

\* The deferred select of an Orchestrator entry appended behind other entries has run.
C5_Witness ==
    /\ AutoSelectRan
    /\ last.t.agent = Orchestrator
    /\ last.t.prevLen > 0
    /\ last.t.existingIndex = -1

(***************************************************************************)
(* C6.  Applying an update event from the Orchestrator with non-empty      *)
(* output to an open system turn leaves the loading flag false, whether    *)
(* status_code is 200 (Succeeded) or anything else (Failed).               *)
(***************************************************************************)
C6_OrchestratorOutputClearsLoading ==
    (Applied /\ last.e.agent_name = Orchestrator /\ last.e.output # "")
        => isLoading = FALSE

\* A failing Orchestrator result was applied.
C6_Witness ==
    /\ Applied /\ last.e.agent_name = Orchestrator /\ last.e.output # ""
    /\ last.e.status_code # 200

(***************************************************************************)
(* C7.  When the first update event for the browsing agent in a turn is    *)
(* applied (no record for it exists yet), the appended record's steps are  *)
(* the filtered steps (first "Plan" step followed by the "Current" steps), *)
(* not the raw event.steps.                                                *)
(***************************************************************************)
C7_FirstRecordFiltered ==
    (Applied /\ last.e.agent_name = WebSurfer /\ ~last.found) =>
        \A i \in RecordsOf(OpenData, WebSurfer) :
            OpenData[i].steps = EffectiveSteps(WebSurfer, last.e.steps)

(***************************************************************************)
(* C8.  When an update replaces an existing record: for the browsing agent *)
(* the stored steps equal [plan, ...currents] (plan = first step starting  *)
(* with "Plan", currents = all steps starting with "Current" in original   *)
(* order; only currents when no plan exists); for every other agent the    *)
(* stored steps equal event.steps unchanged.                               *)
(***************************************************************************)
C8_ReplacedStepsFiltered ==
    (Applied /\ last.found) =>
        /\ RecordsOf(OpenData, last.e.agent_name) # {}
        /\ \A i \in RecordsOf(OpenData, last.e.agent_name) :
              OpenData[i].steps = EffectiveSteps(last.e.agent_name, last.e.steps)

\* The browsing agent's record was replaced by an event whose plan is not its first step.
C8_Witness ==
    /\ Applied /\ last.found
    /\ last.e.agent_name = WebSurfer
    /\ last.e.steps = <<NoteB, CurC, PlanX, PlanY, CurA>>
    /\ \E i \in RecordsOf(OpenData, WebSurfer) : OpenData[i].steps = <<PlanX, CurC, CurA>>

(***************************************************************************)
(* C9.  applyUpdate when the turn sequence is empty or its last turn does  *)
(* not have role system is a no-op: the turn sequence, the gallery, the    *)
(* selection, liveUrl and the loading flag are all unchanged and no system *)
(* turn is created.                                                        *)
(***************************************************************************)
C9_ApplyWithoutTurnIsNoOp ==
    [][ (ApplyStep /\ ~HasOpenTurn(messages))
        => UNCHANGED <<messages, outputsList, currentOutput, animateOutputEntry,
                       timers, liveUrl, isLoading>> ]_vars

\* An update event was delivered after New Chat emptied the turn sequence.
C9_Witness ==
    /\ last.op = "applyUpdate"
    /\ messages = <<>>
    /\ isLoading = TRUE

(***************************************************************************)
(* C10.  liveUrl rule: an applied update with non-empty live_url sets      *)
(* liveUrl to that value whatever the agent; an applied update with empty  *)
(* live_url from an agent other than "Web Surfer Agent" sets liveUrl to    *)
(* empty; one with empty live_url from "Web Surfer Agent" leaves liveUrl   *)
(* unchanged.                                                              *)
(***************************************************************************)
C10_LiveUrlRule ==
    [][ (ApplyStep /\ HasOpenTurn(messages)) =>
          /\ last'.e.live_url # "" => liveUrl' = last'.e.live_url
          /\ (last'.e.live_url = "" /\ last'.e.agent_name # WebSurfer) => liveUrl' = ""
          /\ (last'.e.live_url = "" /\ last'.e.agent_name = WebSurfer) => liveUrl' = liveUrl
      ]_vars

\* The browsing agent's event without live_url kept a URL another agent had set.
C10_Witness ==
    /\ Applied
    /\ last.e.agent_name = WebSurfer /\ last.e.live_url = ""
    /\ liveUrl = "https://y"


\* This step is the Event Source reporting an error or a close.
DisconnectStep == last'.op \in {"onError", "closed"} /\ nConn' = nConn + 1

(***************************************************************************)
(* C11.  Whenever the Event Source reports closed or error, in any state   *)
(* (also in the middle of a turn, while loading is true), the loading flag *)
(* becomes false and no already-merged agent record of any turn is altered.*)
(***************************************************************************)
C11_DisconnectClearsLoading ==
    [][DisconnectStep => (isLoading' = FALSE /\ messages' = messages)]_vars

(***************************************************************************)
(* C12.  Whenever the Event Source reports closed or error while liveUrl   *)
(* is non-empty, liveUrl is cleared.                                       *)
(***************************************************************************)
C12_DisconnectClearsLiveUrl ==
    [][(DisconnectStep /\ liveUrl # "") => liveUrl' = ""]_vars

(***************************************************************************)
(* C13.  For each conversation the first user turn's prompt is sent to the *)
(* Event Source exactly once, whatever the sequence of connection open,    *)
(* error, close and automatic-reconnect events: never a second time, and   *)
(* once the connection has opened, once.                                   *)
(***************************************************************************)
C13_PromptSentOnce ==
    /\ ws.sent <= 1
    /\ ws.readyState = "open" => ws.sent = 1


(***************************************************************************)
(* C14.  An update event with a missing field (here: no steps) applied to  *)
(* an open system turn is always merged, the absent field stored as        *)
(* undefined; it never raises an error and is never dropped, for every     *)
(* agent, "Web Surfer Agent" included, whether or not the agent already    *)
(* has a record.                                                           *)
(***************************************************************************)
C14_MissingFieldsMerged ==
    (last.op = "applyUpdate" /\ last.e.steps = Undefined /\ HasOpenTurn(messages))
        => /\ ~crashed
           /\ \E i \in RecordsOf(OpenData, last.e.agent_name) :
                  OpenData[i].steps = Undefined


\* This step is a click on the named control.
UserStep(op) == last'.op = op /\ nUserOps' = nUserOps + 1

\* This step runs a deferred callback.
FireStep == last'.op = "fireTimer" /\ Len(timers') = Len(timers) - 1

\* This step schedules exactly one settle callback that will select index.
SchedulesSelect(index) ==
    /\ Len(timers') = Len(timers) + 1
    /\ SubSeq(timers', 1, Len(timers)) = timers
    /\ timers'[Len(timers')].kind = "select"
    /\ timers'[Len(timers')].delay = 300
    /\ timers'[Len(timers')].index = Some(index)

(***************************************************************************)
(* C15.  Navigation clamps without wraparound: Previous at index 0 and     *)
(* Next at the last index leave the selection unchanged and schedule       *)
(* nothing; otherwise they leave the selection in place and schedule one   *)
(* settle step for the index one below (one above), and a settle step sets *)
(* the selection to exactly the index it was scheduled for.                *)
(***************************************************************************)
C15_NavigationClamps ==
    [][/\ UserStep("previous") =>
            IF currentOutput = Some(0)
            THEN UNCHANGED <<currentOutput, timers>>
            ELSE currentOutput' = currentOutput /\ SchedulesSelect(currentOutput[1] - 1)
       /\ UserStep("next") =>
            IF currentOutput = Some(Len(outputsList) - 1)
            THEN UNCHANGED <<currentOutput, timers>>
            ELSE currentOutput' = currentOutput /\ SchedulesSelect(currentOutput[1] + 1)
       /\ (FireStep /\ last'.t.kind = "select") => currentOutput' = last'.t.index
      ]_vars

\* Next was clicked below the last index of a three-output gallery and its
\* settle step is scheduled.
C15_Witness ==
    /\ last.op = "next"
    /\ timers # <<>>
    /\ timers[Len(timers)].kind = "select"
    /\ timers[Len(timers)].index = Some(currentOutput[1] + 1)
    /\ Len(outputsList) = 3


(***************************************************************************)
(* C16.  Last-scheduled-wins: when a selection transition (navigation,     *)
(* card click or dismiss) is pending its settle step and an update         *)
(* triggers an auto-select before that settle fires, the stale transition  *)
(* never overwrites the auto-select's selection: once the auto-select's    *)
(* callback has run, a settle step scheduled before it leaves the          *)
(* selection unchanged.                                                    *)
(***************************************************************************)
C16_LastScheduledWins ==
    [][(/\ last.op = "fireTimer"
        /\ last.t.kind = "auto"
        /\ FireStep
        /\ last'.ahead < last.ahead) => currentOutput' = currentOutput]_vars


(***************************************************************************)
(* C17.  Every change of the selection (auto-select, Previous/Next, card   *)
(* click, dismiss) is two ordered events: first a deselect (the            *)
(* entry-animation flag goes false), then the deferred callback sets the   *)
(* new selection.  A step that schedules a settle callback clears the      *)
(* flag; a displayed selection is replaced only by a deferred callback;    *)
(* and when the auto-select's callback replaces a displayed selection the  *)
(* flag is false.                                                          *)
(***************************************************************************)
C17_TwoPhaseSelection ==
    [][/\ (Len(timers') > Len(timers) /\ timers'[Len(timers')].kind # "auto")
            => animateOutputEntry' = FALSE
       /\ (currentOutput # Null /\ currentOutput' # currentOutput /\ messages' # <<>>)
            => FireStep
       /\ (FireStep /\ last'.t.kind = "auto"
              /\ currentOutput # Null /\ currentOutput' # currentOutput)
            => animateOutputEntry = FALSE
      ]_vars


(***************************************************************************)
(* C18.  No update event sets the selection to none, and an update that    *)
(* does not qualify for auto-select (empty output, or output from a        *)
(* non-Orchestrator agent while the gallery is non-empty) leaves the       *)
(* selection unchanged, now and later: it schedules no callback.  Within   *)
(* a conversation a selection becomes none only when the callback of a     *)
(* user dismissal runs.                                                    *)
(***************************************************************************)
C18_UpdatesKeepSelection ==
    [][/\ ApplyStep =>
            /\ currentOutput' = currentOutput
            /\ (\/ last'.e.output = ""
                \/ (last'.e.agent_name # Orchestrator /\ outputsList # <<>>))
                   => timers' = timers
       /\ (currentOutput # Null /\ currentOutput' = Null /\ messages' # <<>>)
            => (FireStep /\ last'.t.kind = "dismiss")
       /\ FireStep /\ last'.t.kind = "auto" => currentOutput' # Null
      ]_vars

\* An output of a non-Orchestrator agent was merged into a non-empty gallery
\* while an output was selected: nothing is scheduled, the selection stays.
C18_Witness ==
    /\ Applied
    /\ last.e.output # ""
    /\ last.e.agent_name # Orchestrator
    /\ Len(outputsList) >= 2
    /\ currentOutput # Null
    /\ timers = <<>>


(***************************************************************************)
(* C19.  Succeeded and Failed are terminal for a turn: once the status     *)
(* derived from the Orchestrator's record is Succeeded or Failed, no later *)
(* update event of that turn (a later Orchestrator event with empty output *)
(* or with another status_code included) changes the status.               *)
(***************************************************************************)
C19_TerminalStatus ==
    [][(ApplyStep /\ HasOpenTurn(messages) /\ CompletionStatus(OpenData) # "Working")
          => CompletionStatus(OpenData)' = CompletionStatus(OpenData)]_vars

(***************************************************************************)
(* C20.  The completion status of a turn is a function of the              *)
(* Orchestrator's record only: Succeeded exactly when that record has      *)
(* non-empty output and status_code 200, Failed exactly when it has        *)
(* non-empty output and another status_code, Working otherwise (also when  *)
(* there is no such record); in the Failed state the failure message shown *)
(* is the Orchestrator record's output.                                    *)
(***************************************************************************)
C20_StatusFromOrchestratorRecord ==
    LET orch == RecordsOf(OpenData, Orchestrator)
        status == CompletionStatus(OpenData)
    IN  /\ Cardinality(orch) <= 1
        /\ orch = {} => status = "Working"
        /\ \A i \in orch :
              LET r == OpenData[i] IN
              /\ status = "Succeeded" <=> (r.output # "" /\ r.status_code = 200)
              /\ status = "Failed" <=> (r.output # "" /\ r.status_code # 200)
              /\ status = "Working" <=> r.output = ""
              /\ status = "Failed" => FailureMessage(OpenData) = r.output

\* A failed turn: the Orchestrator's record has output and status_code 500.
C20_Witness ==
    /\ Applied
    /\ CompletionStatus(OpenData) = "Failed"
    /\ FailureMessage(OpenData) = "done"
    /\ Len(OpenData) >= 2


(***************************************************************************)
(* C21.  Among update events only an Orchestrator update with non-empty    *)
(* output clears the loading flag: applying any other update, whatever its *)
(* output, never changes loading from true to false.                       *)
(***************************************************************************)
C21_OnlyOrchestratorOutputClearsLoading ==
    [][(/\ ApplyStep
        /\ isLoading
        /\ ~(last'.e.agent_name = Orchestrator /\ last'.e.output # ""))
          => isLoading']_vars

\* A non-Orchestrator output was applied twice in a row to the open turn (so
\* loading was true before the second) and loading is still true.
C21_Witness ==
    /\ Applied
    /\ last.repeat
    /\ last.e.agent_name # Orchestrator
    /\ last.e.output # ""
    /\ isLoading

\* This step applies a "Coder Agent" update with empty live_url to the open
\* turn right after a "Web Surfer Agent" update that carried "https://x".
C22_Scenario ==
    /\ ApplyStep
    /\ HasOpenTurn(messages)
    /\ last.op = "applyUpdate"
    /\ last.e.agent_name = WebSurfer
    /\ last.e.live_url = "https://x"
    /\ last'.e.agent_name = Coder
    /\ last'.e.live_url = ""

(***************************************************************************)
(* C22.  Scenario: after a "Web Surfer Agent" update carrying live_url     *)
(* "https://x" is applied and then a "Coder Agent" update with empty       *)
(* live_url is applied to the same open turn, liveUrl is still "https://x".*)
(***************************************************************************)
C22_LiveUrlKept == [][C22_Scenario => liveUrl' = "https://x"]_vars

\* C22 as the code has it: in that scenario liveUrl was "https://x" and the
\* "Coder Agent" update clears it.
C22_LiveUrlCleared ==
    [][C22_Scenario => (liveUrl = "https://x" /\ liveUrl' = "")]_vars

\* The two updates of the scenario, and nothing else, have been applied.
C22_Witness ==
    /\ Applied
    /\ nEvents = 2
    /\ last.e.agent_name = Coder
    /\ last.e.live_url = ""
    /\ Len(OpenData) = 2
    /\ OpenData[1].agent_name = WebSurfer
    /\ OpenData[1].live_url = "https://x"
    /\ liveUrl = ""


DismissFrame == UNCHANGED <<outputsList, messages, liveUrl, isLoading>>

(***************************************************************************)
(* C24.  Dismiss first emits a deselect and schedules the settle callback, *)
(* which sets the selection to none; when the dismiss callback is the only *)
(* pending one, the selection is eventually none unless another selection  *)
(* operation or qualifying update schedules a callback in between; and     *)
(* neither phase changes the gallery, the turn sequence, liveUrl or the    *)
(* loading flag.                                                           *)
(***************************************************************************)
C24_DismissTwoPhase ==
    /\ [][UserStep("dismiss") =>
             /\ animateOutputEntry' = FALSE
             /\ currentOutput' = currentOutput
             /\ Len(timers') = Len(timers) + 1
             /\ SubSeq(timers', 1, Len(timers)) = timers
             /\ timers'[Len(timers')].kind = "dismiss"
             /\ timers'[Len(timers')].delay = 300
             /\ DismissFrame]_vars
    /\ [][(FireStep /\ last'.t.kind = "dismiss") =>
             (currentOutput' = Null /\ DismissFrame)]_vars
    /\ (Len(timers) = 1 /\ timers[1].kind = "dismiss")
           ~> (currentOutput = Null \/ Len(timers) > 1)

\* The callback of a dismissal has run: the gallery is still there, nothing is
\* selected.
C24_Witness ==
    /\ last.op = "fireTimer"
    /\ last.t.kind = "dismiss"
    /\ currentOutput = Null
    /\ Len(outputsList) >= 2
    /\ timers = <<>>


(***************************************************************************)
(* C25.  Gallery entries keep their position: a new agent's entry is       *)
(* appended at the end, an update with non-empty output for an agent       *)
(* already in the gallery replaces that entry's output at the same index,  *)
(* and no operation other than starting a new conversation removes or      *)
(* reorders entries: the length never decreases and each agent's index is  *)
(* fixed from its first output on.                                         *)
(***************************************************************************)
C25_GalleryPositionsFixed ==
    [][last'.op # "newChat" =>
         /\ Len(outputsList') >= Len(outputsList)
         /\ \A i \in 1..Len(outputsList) : outputsList'[i].agent = outputsList[i].agent
         /\ ~ApplyStep => outputsList' = outputsList
         /\ (ApplyStep /\ HasOpenTurn(messages) /\ last'.e.output # "") =>
               LET k == OutputIndex(outputsList, last'.e.agent_name)
                   entry == [agent |-> last'.e.agent_name, output |-> last'.e.output]
               IN  IF k >= 0
                   THEN outputsList' = [outputsList EXCEPT ![k + 1] = entry]
                   ELSE outputsList' = Append(outputsList, entry)
      ]_vars

\* The agent of the first gallery entry delivered another output after a
\* second agent's entry was appended: the first entry was replaced in place.
C25_Witness ==
    /\ Applied
    /\ last.e.output # ""
    /\ Len(outputsList) = 2
    /\ outputsList[1].agent = last.e.agent_name
    /\ outputsList[1].output = last.e.output


(***************************************************************************)
(* C26.  Merging is a full replace while the gallery records only          *)
(* non-empty output: when an update with empty output is applied, the      *)
(* agent's record has empty output afterwards (also when it had output     *)
(* before) and the gallery is left exactly as it was, so the agent's entry *)
(* keeps the previous output; no gallery entry ever has empty output.      *)
(***************************************************************************)
C26_EmptyOutputKeepsGalleryEntry ==
    /\ [](\A i \in 1..Len(outputsList) : outputsList[i].output # "")
    /\ [][(ApplyStep /\ HasOpenTurn(messages) /\ ~crashed' /\ last'.e.output = "") =>
             /\ outputsList' = outputsList
             /\ \A i \in RecordsOf(OpenData', last'.e.agent_name) :
                   OpenData'[i].output = ""]_vars

\* An agent that had delivered output got an update with empty output: its
\* record's output is empty, its gallery entry still holds the old output.
C26_Witness ==
    /\ Applied
    /\ last.e.output = ""
    /\ last.found
    /\ \E i \in 1..Len(outputsList) :
          outputsList[i].agent = last.e.agent_name /\ outputsList[i].output # ""
    /\ \A i \in RecordsOf(OpenData, last.e.agent_name) : OpenData[i].output = ""


(***************************************************************************)
(* C27.  In every reachable state, under every interleaving of update      *)
(* events, navigation clicks, output-card clicks, dismissals and pending   *)
(* deferred select callbacks, the selection is none or an index i with     *)
(* 0 <= i < gallery length; it is never -1 and never past the end.         *)
(***************************************************************************)
C27_SelectionInRange ==
    \/ currentOutput = Null
    \/ /\ Len(currentOutput) = 1
       /\ currentOutput[1] \in 0..(Len(outputsList) - 1)

\* A deferred callback has just selected the last entry of a three-entry gallery.
C27_Witness ==
    /\ last.op = "fireTimer"
    /\ Len(outputsList) = 3
    /\ currentOutput = Some(2)

(***************************************************************************)
(* C28.  In every reachable state, for every record of the last system     *)
(* turn whose output is non-empty, the gallery has an entry for that       *)
(* record's agent name whose output equals the record's output; so an      *)
(* output card that is rendered resolves to an existing gallery index.     *)
(***************************************************************************)
C28_RecordOutputInGallery ==
    /\ \A i \in 1..Len(OpenData) :
          OpenData[i].output # "" =>
             \E j \in 1..Len(outputsList) :
                /\ outputsList[j].agent = OpenData[i].agent_name
                /\ outputsList[j].output = OpenData[i].output
    /\ \A a \in Agents :
          (Mounted /\ CardShown(a)) => OutputIndex(outputsList, a) >= 0

\* An agent that already had a record delivered the output "print(2)": it is
\* in the record and in the gallery, next to another agent's entry, and the
\* gallery holds no older output of that agent.
C28_Witness ==
    /\ Applied
    /\ last.e.output = "print(2)"
    /\ last.found
    /\ Len(outputsList) >= 2
    /\ \E i \in 1..Len(OpenData) : OpenData[i].output = "print(2)"
    /\ \E j \in 1..Len(outputsList) : outputsList[j].output = "print(2)"
    /\ \A j \in 1..Len(outputsList) : outputsList[j].output # "print(1)"


(***************************************************************************)
(* C29.  Applying an update changes only the agent records of the last     *)
(* turn: the number of turns, every earlier turn (each user turn's prompt  *)
(* and sent_at with it) and the last turn's role are unchanged by any      *)
(* update event.                                                           *)
(***************************************************************************)
C29_UpdateTouchesOnlyLastTurnData ==
    [][ApplyStep =>
          /\ Len(messages') = Len(messages)
          /\ \A i \in 1..(Len(messages) - 1) : messages'[i] = messages[i]
          /\ messages # <<>> =>
                messages'[Len(messages)].role = messages[Len(messages)].role]_vars

\* An update has changed the records of the system turn that follows the
\* user turn.
C29_Witness ==
    /\ Applied
    /\ Len(messages) = 2
    /\ messages[1].role = "user"
    /\ messages[1].prompt = <<" ", "a">>
    /\ Len(OpenData) = 2
    /\ last.found


(***************************************************************************)
(* C30.  In every reachable state the turn sequence is empty or exactly    *)
(* one user turn with a non-blank prompt followed by one system turn.      *)
(* Submitting an empty or whitespace-only prompt leaves the turn sequence  *)
(* and the loading flag unchanged; a valid submit creates the user turn    *)
(* and the empty system placeholder together and sets loading to true;     *)
(* New Chat resets the turn sequence to empty.                             *)
(***************************************************************************)
C30_TurnSequenceShape ==
    /\ [](\/ messages = <<>>
          \/ /\ Len(messages) = 2
             /\ messages[1].role = "user"
             /\ Trim(messages[1].prompt) # <<>>
             /\ messages[2].role = "system")
    /\ [][/\ UserStep("handleSubmit") =>
               IF Trim(last'.goal) = <<>>
               THEN messages' = messages /\ isLoading' = isLoading
               ELSE /\ Len(messages') = 2
                    /\ messages'[1].role = "user"
                    /\ messages'[1].prompt = last'.goal
                    /\ messages'[2] = [role |-> "system", data |-> <<>>]
                    /\ isLoading' = TRUE
           /\ UserStep("newChat") => messages' = <<>>]_vars

\* A second conversation was started after New Chat: the valid submit created
\* the two turns again and loading is true.
C30_Witness ==
    /\ last.op = "handleSubmit"
    /\ Trim(last.goal) # <<>>
    /\ nUserOps = 3
    /\ Len(messages) = 2
    /\ messages[2].data = <<>>
    /\ isLoading

====
